---- MODULE Spec2Model ----
(***************************************************************************)
(* State-machine model of the two retrieval-augmented-generation pipelines *)
(* of rag_service: the agentic pipeline (agentic_rag.py) and the           *)
(* scalar-confidence pipeline (langgraph_rag.py).                          *)
(*                                                                         *)
(* Texts are modelled as sequences of tokens.  A completion returned by    *)
(* the language model is a token sequence, a document is a record with a   *)
(* page_content and a metadata field, and the rendered context is the      *)
(* token sequence the code builds from the documents.                      *)
(***************************************************************************)
EXTENDS Integers, Sequences, FiniteSets, TLC

\* ------------------------------------------------------------------ bounds
MaxRounds == 2       \* max_search_rounds is drawn from 0..MaxRounds
MaxPasses == 2       \* cap on executions of a retrieval node within one run
MaxQueries == 2      \* longest decomposition completion, in lines
MaxHits == 1         \* index lookups return every sequence of at most MaxHits documents
MaxContentLen == 1   \* completions include every token sequence of at most MaxContentLen tokens
MaxRetriesArg == 1   \* max_retries is drawn from 0..MaxRetriesArg
MaxRequests == 5     \* cap on the reading items the API handles
MaxBatch == 2        \* a batch request carries 1..MaxBatch items

\* ------------------------------------------------------- program constants
K_AGENTIC == 3       \* search_kwargs k of multi_retrieve
K_SCALAR == 5        \* search_kwargs k of retrieve_documents
RETRY_LIMIT == 2     \* retry_count threshold of decide_next_step
HIGH_THRESHOLD == 70 \* 0.7, confidence scores are in hundredths
MIN_ITEMS == 1       \* min_items of BatchReadingRequest.readings
MAX_ITEMS == 10      \* max_items of BatchReadingRequest.readings

VARIABLES
    \* position of the agentic run in its graph
    pc,
    \* AgenticAstrologyState
    original_query, decomposed_queries, search_round, all_retrieved_docs,
    current_context, intermediate_answers, final_answer, confidence,
    reasoning_trace, max_search_rounds,
    \* value returned by run_agentic_rag
    output,
    \* history of the agentic run
    passes, routed, refined, allLow,
    \* what the node that just ran received: its completion (None when the
    \* call failed or the node makes none) and the documents of its lookups
    \* (None when the lookup failed or the node makes none)
    last_reply, last_batch,
    \* position of the scalar-confidence run in its graph
    s_pc,
    \* AstrologyRAGState
    query, retrieved_docs, context, answer, confidence_score, is_grounded,
    retry_count, all_context_used, metadata,
    \* value returned by run_astrology_rag
    s_output,
    \* history of the scalar-confidence run
    s_passes,
    \* what the node that just ran received: the documents of its lookup (None
    \* when the lookup failed or the node makes none), and whether self_check
    \* invoked the language model and the reply it got (None when the call
    \* failed or was not made)
    s_last_batch, s_check,
    \* the RequestStats instance of api_service.py
    stats,
    \* history of the API: the reading items handled so far, and the response
    \* of the last request when it was a batch request
    handled, batch_response

avars == <<pc, original_query, decomposed_queries, search_round,
           all_retrieved_docs, current_context, intermediate_answers,
           final_answer, confidence, reasoning_trace, max_search_rounds,
           output, passes, routed, refined, allLow, last_reply, last_batch>>

svars == <<s_pc, query, retrieved_docs, context, answer, confidence_score,
           is_grounded, retry_count, all_context_used, metadata, s_output,
           s_passes, s_last_batch, s_check>>

pvars == <<stats, handled, batch_response>>

vars == <<avars, svars, pvars>>

\* ------------------------------------------------------------ value universes
\* an optional value is a sequence of at most one element
None == << >>
Some(v) == << v >>

\* Documents the index can return: two of them share their page_content.
DocA == [page_content |-> "c1", metadata |-> "m1"]
DocA2 == [page_content |-> "c1", metadata |-> "m2"]
DocB == [page_content |-> "c2", metadata |-> "m1"]
Docs == { DocA, DocA2, DocB }

SeqsUpTo(S, n) == UNION { [1..k -> S] : k \in 0..n }

Min(a, b) == IF a <= b THEN a ELSE b

\* What one index lookup can return: at most k documents.  Every short
\* result, and a full result of k documents that repeats a page_content.
Hits ==
    SeqsUpTo(Docs, Min(MaxHits, K_AGENTIC)) \cup { << DocA, DocA2, DocB >> }

\* Tokens of a generation completion.
SENTINEL == "CONFIDENCE:"
ANSWER_MARK == "ANSWER:"
GenTokens == { ANSWER_MARK, SENTINEL, "txt", "HIGH", "MEDIUM", "LOW" }
\* Completions in the layout the prompt asks for, and malformed ones.
LayoutContents ==
    { << ANSWER_MARK, "txt", SENTINEL, "HIGH", "txt" >>,
      << ANSWER_MARK, "txt", SENTINEL, "MEDIUM", "txt" >>,
      << ANSWER_MARK, "txt", SENTINEL, "LOW", "txt" >>,
      << ANSWER_MARK, "txt", SENTINEL, "LOW", "HIGH" >>,
      << ANSWER_MARK, "txt", SENTINEL, "txt" >>,
      << ANSWER_MARK, "txt" >>,
      << "txt", SENTINEL, "LOW", SENTINEL, "HIGH" >>,
      << SENTINEL, "MEDIUM", "HIGH" >> }

\* What a generation completion can be.
GenContents == SeqsUpTo(GenTokens, MaxContentLen) \cup LayoutContents

\* What a completion that is copied verbatim can be (refinement, reading).
PlainContents == { << >>, << "txt" >> }

\* Tokens of a decomposition completion.
Q_MARK == "Q:"
NEWLINE == "\n"
SPACE == " "

\* Lines of a decomposition completion: a line carrying the marker, or not.
QLine == << Q_MARK, "sub1" >>
QLine2 == << Q_MARK, "sub2" >>
Junk == << "junk" >>
DecompLines == { QLine, Junk }

ErrorText == "error"

\* --------------------------------------------------------------- text helpers
RECURSIVE IndexOf(_, _, _)
\* position of the first occurrence of tok in s at or after i, 0 when absent
IndexOf(s, tok, i) ==
    IF i > Len(s) THEN 0
    ELSE IF s[i] = tok THEN i
    ELSE IndexOf(s, tok, i + 1)

\* str.split(sep): the parts of s between occurrences of sep
RECURSIVE Split(_, _)
Split(s, sep) ==
    LET i == IndexOf(s, sep, 1)
    IN  IF i = 0 THEN << s >>
        ELSE << SubSeq(s, 1, i - 1) >> \o Split(SubSeq(s, i + 1, Len(s)), sep)

\* str.replace(tok, ""): s without the occurrences of tok
Remove(s, tok) == SelectSeq(s, LAMBDA t : t # tok)

\* str.lower() on one token
Lower(t) ==
    CASE t = "HIGH" -> "high"
      [] t = "MEDIUM" -> "medium"
      [] t = "LOW" -> "low"
      [] t = SENTINEL -> "confidence:"
      [] t = ANSWER_MARK -> "answer:"
      [] OTHER -> t

\* `word in text.lower()`
ContainsLower(text, word) == \E i \in 1..Len(text) : Lower(text[i]) = word

\* sep.join(parts)
RECURSIVE Join(_, _)
Join(parts, sep) ==
    IF parts = << >> THEN << >>
    ELSE IF Len(parts) = 1 THEN parts[1]
    ELSE parts[1] \o sep \o Join(Tail(parts), sep)

SourceLabel(i) == << "[Source", ToString(i), "]" >>
CONTEXT_SEP == << "---" >>

\* str.strip(): s without its leading and trailing whitespace
RECURSIVE Strip(_)
Strip(s) ==
    IF s = << >> THEN s
    ELSE IF Head(s) = SPACE THEN Strip(Tail(s))
    ELSE IF s[Len(s)] = SPACE THEN Strip(SubSeq(s, 1, Len(s) - 1))
    ELSE s

\* Completions with two different sub-queries, with more lines than asked
\* for, with an indented marker, with the marker inside a line, and with a
\* marker and no query text.
DecompLayouts ==
    { QLine \o << NEWLINE >> \o QLine2,
      QLine \o << NEWLINE >> \o QLine2 \o << NEWLINE >> \o QLine
            \o << NEWLINE >> \o QLine2 \o << NEWLINE >> \o QLine,
      << SPACE, Q_MARK, SPACE, "sub1", SPACE >>,
      << "junk", Q_MARK, "sub1" >>,
      << Q_MARK >> }

\* What a decomposition completion can be: every text of at most MaxQueries
\* lines, and the layouts above.
DecompContents ==
    { Join(lines, << NEWLINE >>) : lines \in SeqsUpTo(DecompLines, MaxQueries) }
    \cup DecompLayouts

\* ----------------------------------------------------- decompose_query parsing
\* line.strip().startswith("Q:")
StartsWithQ(line) == Strip(line) # << >> /\ Head(Strip(line)) = Q_MARK

\* line.replace("Q:", "").strip()
StripMarker(line) == Strip(Remove(line, Q_MARK))

\* the comprehension over the lines of the completion
RECURSIVE ParseLines(_)
ParseLines(lines) ==
    IF lines = << >> THEN << >>
    ELSE IF StartsWithQ(Head(lines))
         THEN << StripMarker(Head(lines)) >> \o ParseLines(Tail(lines))
         ELSE ParseLines(Tail(lines))

ParseQueries(content) == ParseLines(Split(content, NEWLINE))

\* DecomposedQueries without the fallback to the original query
DecomposedQueries_no_fallback(content, original) == ParseQueries(content)

\* queries of decompose_query: the parsed lines, or the original query
DecomposedQueries(content, original) ==
    IF ParseQueries(content) = << >> THEN << original >> ELSE ParseQueries(content)

\* ------------------------------------------------------ multi_retrieve helpers
\* the loop `for doc in docs: if doc.page_content not in seen: ...`
RECURSIVE AddUnique(_, _, _)
AddUnique(docs, seen, acc) ==
    IF docs = << >> THEN acc
    ELSE LET d == Head(docs)
         IN  IF d.page_content \in seen
             THEN AddUnique(Tail(docs), seen, acc)
             ELSE AddUnique(Tail(docs), seen \cup {d.page_content}, Append(acc, d))

\* the documents returned for the sub-queries, in sub-query order
RECURSIVE Flatten(_, _)
Flatten(results, n) ==
    IF n = 0 THEN << >> ELSE Flatten(results, n - 1) \o results[n]

\* all_docs of multi_retrieve: unique documents of this pass
BatchDocs(results, n) == AddUnique(Flatten(results, n), {}, << >>)

\* MergeDocs without the second deduplication loop
MergeDocs_concat(old, batch) == old \o batch

\* MergeDocs that puts the batch ahead of the previous documents
MergeDocs_batch_first(old, batch) == AddUnique(batch \o old, {}, << >>)

\* MergeDocs that takes the batch from its last document to its first
MergeDocs_reverse_new(old, batch) ==
    AddUnique(old \o [i \in 1..Len(batch) |-> batch[Len(batch) + 1 - i]], {}, << >>)

\* unique_docs of multi_retrieve: previous documents plus the batch, deduplicated
MergeDocs(old, batch) == AddUnique(old \o batch, {}, << >>)

\* FormatContext numbering the blocks from 0 (enumerate without a start)
FormatContext_from_zero(docs) ==
    Join([i \in 1..Len(docs) |-> SourceLabel(i - 1) \o << docs[i].page_content >>],
         CONTEXT_SEP)

\* context of multi_retrieve: numbered blocks joined by the separator
FormatContext(docs) ==
    Join([i \in 1..Len(docs) |-> SourceLabel(i) \o << docs[i].page_content >>],
         CONTEXT_SEP)

\* ------------------------------------------- generate_with_confidence parsing
ParseAnswer(content) == Remove(Split(content, SENTINEL)[1], ANSWER_MARK)

\* ParseConfidence that reads the first label after the sentinel
ParseConfidence_first_label(content) ==
    LET parts == Split(content, SENTINEL)
        labels == SelectSeq(parts[2],
                            LAMBDA t : Lower(t) \in {"high", "medium", "low"})
    IN  IF Len(parts) > 1
        THEN IF labels = << >> THEN "low" ELSE Lower(labels[1])
        ELSE "medium"

ParseConfidence(content) ==
    LET parts == Split(content, SENTINEL)
    IN  IF Len(parts) > 1
        THEN IF ContainsLower(parts[2], "high") THEN "high"
             ELSE IF ContainsLower(parts[2], "medium") THEN "medium"
             ELSE "low"
        ELSE "medium"

\* --------------------------------------------------------------------- router
\* confidence_router with the medium test ahead of the round-limit test
confidence_router_medium_first(conf, round, limit) ==
    IF conf = "high" THEN "end"
    ELSE IF conf = "medium" THEN "refine"
    ELSE IF round >= limit THEN "end"
    ELSE IF round < limit THEN "search_again"
    ELSE "end"

\* confidence_router with a strict round-limit test
confidence_router_strict(conf, round, limit) ==
    IF conf = "high" THEN "end"
    ELSE IF round > limit THEN "end"
    ELSE IF conf = "medium" THEN "refine"
    ELSE IF round <= limit THEN "search_again"
    ELSE "end"

\* confidence_router that gives up on a low verdict
confidence_router_no_retry(conf, round, limit) ==
    IF conf = "high" THEN "end"
    ELSE IF round >= limit THEN "end"
    ELSE IF conf = "medium" THEN "refine"
    ELSE "end"

\* confidence_router that also refines a low verdict
confidence_router_refines_low(conf, round, limit) ==
    IF conf = "high" THEN "end"
    ELSE IF round >= limit THEN "end"
    ELSE "refine"

confidence_router(conf, round, limit) ==
    IF conf = "high" THEN "end"
    ELSE IF round >= limit THEN "end"
    ELSE IF conf = "medium" THEN "refine"
    ELSE IF round < limit THEN "search_again"
    ELSE "end"

\* RouteTarget with search_again wired to the decomposition node
RouteTarget_redecompose(choice) ==
    CASE choice = "end" -> "end"
      [] choice = "refine" -> "refine"
      [] choice = "search_again" -> "decompose"

\* the conditional edges of build_agentic_rag_graph
RouteTarget(choice) ==
    CASE choice = "end" -> "end"
      [] choice = "refine" -> "refine"
      [] choice = "search_again" -> "retrieve"

\* ----------------------------------------------------------------------- Init
AgenticStart(limit) ==
    /\ pc = "decompose"
    /\ original_query = << "q0" >>
    /\ decomposed_queries = << >>
    /\ search_round = 0
    /\ all_retrieved_docs = << >>
    /\ current_context = << >>
    /\ intermediate_answers = << >>
    /\ final_answer = << >>
    /\ confidence = "low"
    /\ reasoning_trace = << << "Agentic RAG pipeline started" >> >>
    /\ max_search_rounds = limit
    /\ output = None
    /\ passes = 0
    /\ routed = None
    /\ refined = FALSE
    /\ allLow = TRUE
    /\ last_reply = None
    /\ last_batch = None

\* -------------------------------------------------------------------- actions
\* get_llm is called before the node's try block: its failure leaves the node
Raise ==
    /\ pc' = "raised"
    /\ UNCHANGED << original_query, decomposed_queries, search_round,
                    all_retrieved_docs, current_context, intermediate_answers,
                    final_answer, confidence, reasoning_trace,
                    max_search_rounds, output, passes, routed, refined, allLow,
                    last_reply, last_batch >>

\* A cancellation delivered while the node waits for a collaborator
\* (KeyboardInterrupt, CancelledError) is not an Exception: no handler of the
\* node catches it, and run_agentic_rag has none around app.invoke.
Cancel ==
    /\ pc' = "cancelled"
    /\ UNCHANGED << original_query, decomposed_queries, search_round,
                    all_retrieved_docs, current_context, intermediate_answers,
                    final_answer, confidence, reasoning_trace,
                    max_search_rounds, output, passes, routed, refined, allLow,
                    last_reply, last_batch >>

DecomposeOk(content) ==
    LET queries == DecomposedQueries(content, original_query)
    IN  /\ decomposed_queries' = queries
        /\ reasoning_trace' =
               Append(reasoning_trace,
                      << "Decomposed into", ToString(Len(queries)), "sub-queries" >>)
        /\ last_reply' = Some(content)

DecomposeFail ==
    /\ decomposed_queries' = << original_query >>
    /\ reasoning_trace' =
           Append(reasoning_trace, << "Decomposition failed:", ErrorText >>)
    /\ last_reply' = None

\* decompose_query that continues with its first sub-query as the query
decompose_query_overwrites_query ==
    /\ UNCHANGED << svars, pvars >>
    /\ pc = "decompose"
    /\ \/ Raise
       \/ Cancel
       \/ /\ \/ \E content \in DecompContents : DecomposeOk(content)
             \/ DecomposeFail
          /\ original_query' = decomposed_queries'[1]
          /\ pc' = "retrieve"
          /\ UNCHANGED << search_round, all_retrieved_docs,
                          current_context, intermediate_answers, final_answer,
                          confidence, max_search_rounds, output, passes,
                          routed, refined, allLow, last_batch >>

decompose_query ==
    /\ UNCHANGED << svars, pvars >>
    /\ pc = "decompose"
    /\ \/ Raise
       \/ Cancel
       \/ /\ \/ \E content \in DecompContents : DecomposeOk(content)
             \/ DecomposeFail
          /\ pc' = "retrieve"
          /\ UNCHANGED << original_query, search_round, all_retrieved_docs,
                          current_context, intermediate_answers, final_answer,
                          confidence, max_search_rounds, output, passes,
                          routed, refined, allLow, last_batch >>

\* the sub-query texts the pass looks up
QueryTexts(queries) == { queries[i] : i \in 1..Len(queries) }

\* RetrieveOk that starts the trace over with its own entry
RetrieveOk_trace_reset(results) ==
    LET found == [i \in 1..Len(decomposed_queries) |-> results[decomposed_queries[i]]]
        all_docs == BatchDocs(found, Len(decomposed_queries))
        unique_docs == MergeDocs(all_retrieved_docs, all_docs)
    IN  /\ last_batch' = Some(all_docs)
        /\ all_retrieved_docs' = unique_docs
        /\ current_context' = FormatContext(unique_docs)
        /\ search_round' = search_round + 1
        /\ reasoning_trace' =
               << << "Multi-hop retrieval:", ToString(Len(all_docs)), "new docs,",
                     ToString(Len(unique_docs)), "total" >> >>

\* RetrieveOk that counts the pass twice
RetrieveOk_skips_round(results) ==
    LET found == [i \in 1..Len(decomposed_queries) |-> results[decomposed_queries[i]]]
        all_docs == BatchDocs(found, Len(decomposed_queries))
        unique_docs == MergeDocs(all_retrieved_docs, all_docs)
    IN  /\ last_batch' = Some(all_docs)
        /\ all_retrieved_docs' = unique_docs
        /\ current_context' = FormatContext(unique_docs)
        /\ search_round' = search_round + 2
        /\ reasoning_trace' =
               Append(reasoning_trace,
                      << "Multi-hop retrieval:", ToString(Len(all_docs)), "new docs,",
                         ToString(Len(unique_docs)), "total" >>)

\* results gives, for each sub-query text, what the index returns for it
\* during this pass
RetrieveOk(results) ==
    LET found == [i \in 1..Len(decomposed_queries) |-> results[decomposed_queries[i]]]
        all_docs == BatchDocs(found, Len(decomposed_queries))
        unique_docs == MergeDocs(all_retrieved_docs, all_docs)
    IN  /\ last_batch' = Some(all_docs)
        /\ all_retrieved_docs' = unique_docs
        /\ current_context' = FormatContext(unique_docs)
        /\ search_round' = search_round + 1
        /\ reasoning_trace' =
               Append(reasoning_trace,
                      << "Multi-hop retrieval:", ToString(Len(all_docs)), "new docs,",
                         ToString(Len(unique_docs)), "total" >>)

\* RetrieveFail that answers with no documents and an error context
RetrieveFail_reset ==
    /\ reasoning_trace' =
           Append(reasoning_trace, << "Retrieval failed:", ErrorText >>)
    /\ all_retrieved_docs' = << >>
    /\ current_context' = << "Error retrieving documents." >>
    /\ last_batch' = None
    /\ UNCHANGED << search_round >>

RetrieveFail ==
    /\ reasoning_trace' =
           Append(reasoning_trace, << "Retrieval failed:", ErrorText >>)
    /\ last_batch' = None
    /\ UNCHANGED << all_retrieved_docs, current_context, search_round >>

multi_retrieve ==
    /\ UNCHANGED << svars, pvars >>
    /\ pc = "retrieve"
    /\ passes < MaxPasses
    /\ \/ Cancel
       \/ /\ \/ \E results \in [QueryTexts(decomposed_queries) -> Hits] :
                   RetrieveOk(results)
             \/ RetrieveFail
          /\ passes' = passes + 1
          /\ pc' = "generate"
          /\ last_reply' = None
          /\ UNCHANGED << original_query, decomposed_queries,
                          intermediate_answers, final_answer, confidence,
                          max_search_rounds, output, routed, refined, allLow >>

GenerateOk(content) ==
    /\ final_answer' = ParseAnswer(content)
    /\ confidence' = ParseConfidence(content)
    /\ reasoning_trace' =
           Append(reasoning_trace,
                  << "Generated answer with", confidence', "confidence" >>)
    /\ last_reply' = Some(content)

\* GenerateFail that leaves the default confidence of the parser
GenerateFail_medium ==
    /\ final_answer' = << "Unable to generate answer:", ErrorText >>
    /\ confidence' = "medium"
    /\ reasoning_trace' =
           Append(reasoning_trace, << "Generation failed:", ErrorText >>)
    /\ last_reply' = None

GenerateFail ==
    /\ final_answer' = << "Unable to generate answer:", ErrorText >>
    /\ confidence' = "low"
    /\ reasoning_trace' =
           Append(reasoning_trace, << "Generation failed:", ErrorText >>)
    /\ last_reply' = None

generate_with_confidence ==
    /\ UNCHANGED << svars, pvars >>
    /\ pc = "generate"
    /\ \/ Raise
       \/ Cancel
       \/ /\ \/ \E content \in GenContents : GenerateOk(content)
             \/ GenerateFail
          /\ allLow' = (allLow /\ confidence' = "low")
          /\ pc' = "router"
          /\ last_batch' = None
          /\ UNCHANGED << original_query, decomposed_queries, search_round,
                          all_retrieved_docs, current_context,
                          intermediate_answers, max_search_rounds, output,
                          passes, routed, refined >>

\* Route whose router logs its decision in the trace
Route_logs_decision ==
    /\ UNCHANGED << svars, pvars >>
    /\ pc = "router"
    /\ LET choice == confidence_router(confidence, search_round, max_search_rounds)
       IN  /\ routed' = Some([conf |-> confidence, round |-> search_round,
                              limit |-> max_search_rounds, choice |-> choice])
           /\ pc' = RouteTarget(choice)
           /\ reasoning_trace' = Append(reasoning_trace, << "Routed to", choice >>)
    /\ last_reply' = None
    /\ UNCHANGED << original_query, decomposed_queries, search_round,
                    all_retrieved_docs, current_context, intermediate_answers,
                    final_answer, confidence, max_search_rounds, output,
                    passes, refined, allLow, last_batch >>

Route ==
    /\ UNCHANGED << svars, pvars >>
    /\ pc = "router"
    /\ LET choice == confidence_router(confidence, search_round, max_search_rounds)
       IN  /\ routed' = Some([conf |-> confidence, round |-> search_round,
                              limit |-> max_search_rounds, choice |-> choice])
           /\ pc' = RouteTarget(choice)
    /\ last_reply' = None
    /\ UNCHANGED << original_query, decomposed_queries, search_round,
                    all_retrieved_docs, current_context, intermediate_answers,
                    final_answer, confidence, reasoning_trace,
                    max_search_rounds, output, passes, refined, allLow,
                    last_batch >>

\* RefineOk that keeps the confidence of the generation
RefineOk_keep_confidence(content) ==
    /\ final_answer' = content
    /\ confidence' = confidence
    /\ reasoning_trace' =
           Append(reasoning_trace, << "Refined answer for better clarity" >>)
    /\ refined' = TRUE
    /\ last_reply' = Some(content)

RefineOk(content) ==
    /\ final_answer' = content
    /\ confidence' = "high"
    /\ reasoning_trace' =
           Append(reasoning_trace, << "Refined answer for better clarity" >>)
    /\ refined' = TRUE
    /\ last_reply' = Some(content)

RefineFail ==
    /\ last_reply' = None
    /\ UNCHANGED << final_answer, confidence, reasoning_trace, refined >>

refine_answer ==
    /\ UNCHANGED << svars, pvars >>
    /\ pc = "refine"
    /\ \/ Raise
       \/ Cancel
       \/ /\ \/ \E content \in PlainContents : RefineOk(content)
             \/ RefineFail
          /\ pc' = "end"
          /\ UNCHANGED << original_query, decomposed_queries, search_round,
                          all_retrieved_docs, current_context,
                          intermediate_answers, max_search_rounds, output,
                          passes, routed, allLow, last_batch >>

\* the projection run_agentic_rag builds from the final state
run_agentic_rag ==
    /\ UNCHANGED << svars, pvars >>
    /\ pc = "end"
    /\ output' = Some([query |-> original_query,
                       answer |-> final_answer,
                       confidence |-> confidence,
                       sources_used |-> Len(all_retrieved_docs),
                       search_rounds |-> search_round,
                       reasoning_trace |-> reasoning_trace])
    /\ pc' = "returned"
    /\ last_reply' = None
    /\ UNCHANGED << original_query, decomposed_queries, search_round,
                    all_retrieved_docs, current_context, intermediate_answers,
                    final_answer, confidence, reasoning_trace,
                    max_search_rounds, passes, routed, refined, allLow,
                    last_batch >>

\* =================================================== scalar-confidence pipeline
\* What one index lookup of retrieve_documents can return.
ScalarHits ==
    SeqsUpTo(Docs, Min(MaxHits, K_SCALAR)) \cup { << DocA, DocA2, DocB >> }

\* Confidence values a grounding reply can carry, in hundredths.
ReplyConfidences == { 0 - 20, 0, 50, 69, 70, 100, 150 }

\* Replies of the grounding completion: a JSON object whose fields are
\* optional (a field is a sequence of at most one value) and whose confidence
\* may be a number or not, a JSON value that is not an object, or text that
\* is not JSON.
GroundingReplies ==
    [kind : {"object"}, is_grounded : {None, Some(TRUE), Some(FALSE)},
     confidence : {None} \cup {Some(c) : c \in ReplyConfidences},
     confidence_is_number : BOOLEAN, text : {<< >>}]
    \cup [kind : {"value"}, is_grounded : {None}, confidence : {None},
          confidence_is_number : {TRUE}, text : {<< >>}]
    \cup [kind : {"text"}, is_grounded : {None}, confidence : {None},
          confidence_is_number : {TRUE},
          text : { << "Grounded" >>, << "not", "grounded" >>,
                   << "unsupported" >> }]

\* `"ground" in content.lower()`
ContainsGround(text) ==
    \E i \in 1..Len(text) : text[i] \in {"Grounded", "grounded", "ground"}

\* result.get(key, default)
GetOr(reply, key, default) ==
    IF reply[key] = None THEN default ELSE reply[key][1]

RETRIEVAL_ERROR_CONTEXT ==
    << "Error retrieving documents. Generating response from base knowledge." >>

\* self_check has not invoked the language model
NoCall == [invoked |-> FALSE, reply |-> None]

ScalarStart(retries) ==
    /\ s_pc = "analyze"
    /\ query = "q0"
    /\ retrieved_docs = << >>
    /\ context = << >>
    /\ answer = << >>
    /\ confidence_score = 0
    /\ is_grounded = FALSE
    /\ retry_count = 0
    /\ all_context_used = FALSE
    /\ metadata = [max_retries |-> retries]
    /\ s_output = None
    /\ s_passes = 0
    /\ s_last_batch = None
    /\ s_check = NoCall

ScalarRaise ==
    /\ s_pc' = "raised"
    /\ UNCHANGED << query, retrieved_docs, context, answer, confidence_score,
                    is_grounded, retry_count, all_context_used, metadata,
                    s_output, s_passes, s_last_batch, s_check >>

analyze_query ==
    /\ UNCHANGED << avars, pvars >>
    /\ s_pc = "analyze"
    /\ s_pc' = "retrieve"
    /\ UNCHANGED << query, retrieved_docs, context, answer, confidence_score,
                    is_grounded, retry_count, all_context_used, metadata,
                    s_output, s_passes, s_last_batch, s_check >>

ScalarRetrieveOk(docs) ==
    /\ retrieved_docs' = docs
    /\ context' = FormatContext(docs)
    /\ s_last_batch' = Some(docs)

\* the except branch of retrieve_documents
ScalarRetrieveFail ==
    /\ context' = RETRIEVAL_ERROR_CONTEXT
    /\ retrieved_docs' = << >>
    /\ s_last_batch' = None

retrieve_documents ==
    /\ UNCHANGED << avars, pvars >>
    /\ s_pc = "retrieve"
    /\ s_passes < MaxPasses
    /\ \/ \E docs \in ScalarHits : ScalarRetrieveOk(docs)
       \/ ScalarRetrieveFail
    /\ s_passes' = s_passes + 1
    /\ s_pc' = "generate"
    /\ UNCHANGED << query, answer, confidence_score, is_grounded, retry_count,
                    all_context_used, metadata, s_output, s_check >>

generate_reading ==
    /\ UNCHANGED << avars, pvars >>
    /\ s_pc = "generate"
    /\ \/ ScalarRaise
       \/ /\ \/ \E content \in PlainContents : answer' = content
             \/ answer' = << "Unable to generate reading:", ErrorText >>
          /\ s_pc' = "self_check"
          /\ s_last_batch' = None
          /\ UNCHANGED << query, retrieved_docs, context, confidence_score,
                          is_grounded, retry_count, all_context_used, metadata,
                          s_output, s_passes, s_check >>

\* CheckReply that treats a reply that is not JSON as a failed call
CheckReply_text_fails(reply) ==
    IF reply.kind = "object"
    THEN IF reply.confidence # None /\ ~reply.confidence_is_number
         THEN [is_grounded |-> FALSE, confidence_score |-> 50]
         ELSE [is_grounded |-> GetOr(reply, "is_grounded", FALSE),
               confidence_score |-> GetOr(reply, "confidence", 50)]
    ELSE [is_grounded |-> FALSE, confidence_score |-> 50]

\* the outcome of self_check on one grounding reply
CheckReply(reply) ==
    IF reply.kind = "object"
    THEN IF reply.confidence # None /\ ~reply.confidence_is_number
         THEN \* formatting the confidence raises; the outer handler answers
              [is_grounded |-> FALSE, confidence_score |-> 50]
         ELSE [is_grounded |-> GetOr(reply, "is_grounded", FALSE),
               confidence_score |-> GetOr(reply, "confidence", 50)]
    ELSE IF reply.kind = "value"
    THEN \* result.get raises; the outer handler answers
         [is_grounded |-> FALSE, confidence_score |-> 50]
    ELSE [is_grounded |-> ContainsGround(reply.text), confidence_score |-> 60]

\* CheckEmpty that reports no confidence at all
CheckEmpty_zero_confidence ==
    /\ is_grounded' = FALSE
    /\ confidence_score' = 0
    /\ s_check' = NoCall

\* the short-circuit of self_check on an empty retrieved_docs
CheckEmpty ==
    /\ is_grounded' = FALSE
    /\ confidence_score' = 50
    /\ s_check' = NoCall

CheckOk(reply) ==
    LET r == CheckReply(reply)
    IN  /\ is_grounded' = r.is_grounded
        /\ confidence_score' = r.confidence_score
        /\ s_check' = [invoked |-> TRUE, reply |-> Some(reply)]

\* the outer except branch of self_check when llm.invoke raises
CheckFail ==
    /\ is_grounded' = FALSE
    /\ confidence_score' = 50
    /\ s_check' = [invoked |-> TRUE, reply |-> None]

self_check ==
    /\ UNCHANGED << avars, pvars >>
    /\ s_pc = "self_check"
    /\ \/ /\ retrieved_docs = << >>
          /\ CheckEmpty
          /\ all_context_used' = TRUE
          /\ s_pc' = "router"
       \/ /\ retrieved_docs # << >>
          /\ \/ /\ ScalarRaise
                /\ UNCHANGED << query >>
             \/ /\ \/ \E reply \in GroundingReplies : CheckOk(reply)
                   \/ CheckFail
                /\ all_context_used' = TRUE
                /\ s_pc' = "router"
    /\ UNCHANGED << query, retrieved_docs, context, answer, retry_count,
                    metadata, s_output, s_passes, s_last_batch >>

\* decide_next_step with a strict threshold test
decide_next_step_strict(score, retries, context_used) ==
    IF score > HIGH_THRESHOLD THEN "end"
    ELSE IF retries >= RETRY_LIMIT THEN "end"
    ELSE IF context_used /\ score <= HIGH_THRESHOLD THEN "retrieve_more"
    ELSE "end"

decide_next_step(score, retries, context_used) ==
    IF score >= HIGH_THRESHOLD THEN "end"
    ELSE IF retries >= RETRY_LIMIT THEN "end"
    ELSE IF context_used /\ score < HIGH_THRESHOLD THEN "retrieve_more"
    ELSE "end"

\* the conditional edges of build_astrology_rag_graph
ScalarTarget(choice) ==
    CASE choice = "end" -> "end"
      [] choice = "retrieve_more" -> "retrieve"

ScalarRoute ==
    /\ UNCHANGED << avars, pvars >>
    /\ s_pc = "router"
    /\ s_pc' = ScalarTarget(decide_next_step(confidence_score, retry_count,
                                             all_context_used))
    /\ s_check' = NoCall
    /\ UNCHANGED << query, retrieved_docs, context, answer, confidence_score,
                    is_grounded, retry_count, all_context_used, metadata,
                    s_output, s_passes, s_last_batch >>

\* the projection run_astrology_rag builds from the final state
run_astrology_rag ==
    /\ UNCHANGED << avars, pvars >>
    /\ s_pc = "end"
    /\ s_output' = Some([query |-> query,
                         answer |-> answer,
                         confidence |-> confidence_score,
                         grounded |-> is_grounded,
                         sources_count |-> Len(retrieved_docs),
                         retries |-> retry_count])
    /\ s_pc' = "returned"
    /\ UNCHANGED << query, retrieved_docs, context, answer, confidence_score,
                    is_grounded, retry_count, all_context_used, metadata,
                    s_passes, s_last_batch, s_check >>

\* ================================================================ API service
\* What one call of run_astrology_rag gives its caller: None when it raises,
\* or the confidence of the projection it returns.
RunOutcomes == { None } \cup { Some(c) : c \in ReplyConfidences \cup {50, 60} }

\* the constraints ge=0.0, le=1.0 of AstrologyReadingResponse.confidence
ValidResponse(c) == 0 <= c /\ c <= 100

record_success(st) ==
    [st EXCEPT !.total_requests = @ + 1, !.successful = @ + 1]

record_failure(st) ==
    [st EXCEPT !.total_requests = @ + 1, !.failed = @ + 1]

ApiStart ==
    /\ stats = [total_requests |-> 0, successful |-> 0, failed |-> 0]
    /\ handled = 0
    /\ batch_response = None

\* POST /reading: the pipeline runs, the success is recorded, and then the
\* response model is built; the handler records a failure for any exception
\* of the three.
api_generate_reading ==
    /\ handled < MaxRequests
    /\ \E r \in RunOutcomes :
          stats' = IF r = None THEN record_failure(stats)
                   ELSE IF ValidResponse(r[1]) THEN record_success(stats)
                   ELSE record_failure(record_success(stats))
    /\ handled' = handled + 1
    /\ batch_response' = None
    /\ UNCHANGED << avars, svars >>

\* the loop of batch_readings from item i on: the response model is built
\* before the success is recorded
RECURSIVE BatchLoop(_, _, _, _, _)
BatchLoop(outcomes, i, st, results, errors) ==
    IF i > Len(outcomes)
    THEN [stats |-> st, results |-> results, errors |-> errors]
    ELSE IF outcomes[i] # None /\ ValidResponse(outcomes[i][1])
         THEN BatchLoop(outcomes, i + 1, record_success(st),
                        Append(results, i), errors)
         ELSE BatchLoop(outcomes, i + 1, record_failure(st),
                        results, Append(errors, i))

\* POST /batch-reading; an item stands in results and errors by its index
batch_readings ==
    /\ \E n \in MIN_ITEMS..Min(MaxBatch, MAX_ITEMS) :
          /\ handled + n <= MaxRequests
          /\ \E outcomes \in [1..n -> RunOutcomes] :
                LET done == BatchLoop(outcomes, 1, stats, << >>, << >>)
                IN  /\ stats' = done.stats
                    /\ batch_response' =
                           Some([total |-> Len(outcomes),
                                 successful |-> Len(done.results),
                                 failed |-> Len(done.errors),
                                 results |-> done.results,
                                 errors |-> done.errors])
          /\ handled' = handled + n
    /\ UNCHANGED << avars, svars >>

\* ============================================================== specifications
DEFAULT_MAX_SEARCH_ROUNDS == 3
DEFAULT_MAX_RETRIES == 2

Init ==
    /\ \E limit \in 0..MaxRounds : AgenticStart(limit)
    /\ ScalarStart(DEFAULT_MAX_RETRIES)
    /\ ApiStart

InitScalar ==
    /\ AgenticStart(DEFAULT_MAX_SEARCH_ROUNDS)
    /\ \E retries \in 0..MaxRetriesArg : ScalarStart(retries)
    /\ ApiStart

InitApi ==
    /\ AgenticStart(DEFAULT_MAX_SEARCH_ROUNDS)
    /\ ScalarStart(DEFAULT_MAX_RETRIES)
    /\ ApiStart

Next ==
    \/ decompose_query
    \/ multi_retrieve
    \/ generate_with_confidence
    \/ Route
    \/ refine_answer
    \/ run_agentic_rag

Spec == Init /\ [][Next]_vars

NextScalar ==
    \/ analyze_query
    \/ retrieve_documents
    \/ generate_reading
    \/ self_check
    \/ ScalarRoute
    \/ run_astrology_rag

SpecScalar == InitScalar /\ [][NextScalar]_vars

NextApi ==
    \/ api_generate_reading
    \/ batch_readings

SpecApi == InitApi /\ [][NextApi]_vars

\* ======================================================================= claims
Last(s) == s[Len(s)]

Terminated == pc \in {"end", "returned"}

\* C1: with max_search_rounds >= 1, the number of executions of multi_retrieve
\* within one run never exceeds max_search_rounds.
C1_PassesWithinLimit ==
    max_search_rounds >= 1 => passes <= max_search_rounds

\* C2: with max_search_rounds >= 1, a run in which every generation yields low
\* confidence has terminated after exactly max_search_rounds retrieval passes.
C2_AllLowExactPasses ==
    (Terminated /\ allLow /\ max_search_rounds >= 1)
        => passes = max_search_rounds

\* C3: a run of the scalar-confidence pipeline performs at most max_retries
\* retry passes through retrieve_documents after the first pass.
C3_RetriesWithinMax ==
    s_passes <= 1 + metadata.max_retries

\* the decision table of the router, as the claim states it
RouterTable(conf, round, limit) ==
    CASE conf = "high" -> "end"
      [] conf # "high" /\ round = limit -> "end"
      [] conf = "medium" /\ round < limit -> "refine"
      [] conf = "low" /\ round < limit -> "search_again"

\* C4: for every confidence in {high, medium, low} and 0 <= r <= L, L >= 1,
\* confidence_router returns end on high, end when r = L, refine on medium
\* with r < L and search_again on low with r < L; every routing decision of a
\* run follows the table.
C4_RouterTable ==
    /\ \A conf \in {"high", "medium", "low"} : \A limit \in 1..(MaxRounds + 1) :
         \A round \in 0..limit :
            confidence_router(conf, round, limit) = RouterTable(conf, round, limit)
    /\ \A i \in 1..Len(routed) :
         (routed[i].limit >= 1 /\ routed[i].round <= routed[i].limit)
            => routed[i].choice
                 = RouterTable(routed[i].conf, routed[i].round, routed[i].limit)

C4_Witness ==
    /\ routed # None
    /\ routed[1].conf = "low"
    /\ routed[1].limit >= 1
    /\ routed[1].round = routed[1].limit
    /\ routed[1].choice = "end"

\* C5: the router never chooses search_again or refine when
\* search_round >= max_search_rounds.
C5_LimitOutranks ==
    \A i \in 1..Len(routed) :
        routed[i].round >= routed[i].limit => routed[i].choice = "end"

C5_Witness ==
    /\ routed # None
    /\ routed[1].conf = "medium"
    /\ routed[1].round >= routed[1].limit
    /\ pc = "end"

\* C6: a run never ends in an unhandled exception because of a collaborator
\* failure, including failure to obtain the language-model client.
C6_NeverRaises ==
    pc # "raised"

\* C7: all_retrieved_docs never contains two documents with equal page_content.
C7_NoDuplicateContent ==
    \A i, j \in 1..Len(all_retrieved_docs) :
        i # j => all_retrieved_docs[i].page_content
                    # all_retrieved_docs[j].page_content

\* two passes each returned one unique document and the total stayed at one:
\* the second pass returned a content already accumulated
C7_Witness ==
    \E i, j \in 1..Len(reasoning_trace) :
        /\ i < j
        /\ reasoning_trace[i][1] = "Multi-hop retrieval:"
        /\ reasoning_trace[j][1] = "Multi-hop retrieval:"
        /\ reasoning_trace[i][2] = "1" /\ reasoning_trace[i][4] = "1"
        /\ reasoning_trace[j][2] = "1" /\ reasoning_trace[j][4] = "1"

\* text is the render of docs: block i is the label i followed by the content
\* of document i, and consecutive blocks are separated by the separator
IsRenderOf(text, docs) ==
    LET n == Len(docs)
    IN  /\ Len(text) = IF n = 0 THEN 0 ELSE 5 * n - 1
        /\ \A i \in 1..n :
             /\ text[5 * (i - 1) + 1] = "[Source"
             /\ text[5 * (i - 1) + 2] = ToString(i)
             /\ text[5 * (i - 1) + 3] = "]"
             /\ text[5 * (i - 1) + 4] = docs[i].page_content
             /\ i < n => text[5 * i] = "---"

\* C8: current_context is the render of all_retrieved_docs (blocks labelled
\* 1..N in sequence order, joined by the separator) in every state: initially,
\* after a successful retrieval pass and after a failed one.
C8_ContextIsRender ==
    IsRenderOf(current_context, all_retrieved_docs)

\* a failed pass after a successful one that accumulated two documents
C8_Witness ==
    /\ Len(all_retrieved_docs) = 2
    /\ passes >= 2
    /\ Last(reasoning_trace)[1] = "Retrieval failed:"

\* C9: every execution of multi_retrieve increases search_round by exactly 1
\* and no other step changes search_round.
C9_RoundPerPass ==
    [][search_round' = search_round + (passes' - passes)]_vars

\* C10: after a successful refine_answer the confidence is high and the run
\* has ended: no router, retrieval or generation step follows the refinement.
C10_RefineTerminal ==
    refined => /\ confidence = "high"
               /\ Terminated
               /\ Last(reasoning_trace) = << "Refined answer for better clarity" >>

C10_Witness ==
    /\ refined
    /\ pc = "returned"
    /\ output # None
    /\ output[1].confidence = "high"

\* ---------------------------------------------------------------- C11 .. C20
\* the kinds of the entries of a trace
TraceHeads(trace) == { trace[i][1] : i \in 1..Len(trace) }

EntriesOf(trace, heads) == SelectSeq(trace, LAMBDA e : e[1] \in heads)

GENERATION_FAILURE == << "Unable to generate answer:", ErrorText >>

\* no completion call of the run so far succeeded and no index lookup failed
CompletionOutage ==
    TraceHeads(reasoning_trace) \subseteq
        { "Agentic RAG pipeline started", "Decomposition failed:",
          "Multi-hop retrieval:", "Generation failed:" }

\* C11: when every completion call fails and the index lookups succeed, with
\* max_search_rounds = L >= 1 the run does not raise, keeps [original_query]
\* as its sub-queries, answers each pass with the failure message and low
\* confidence, is routed to search_again while search_round < L, and ends
\* with search_rounds = L, confidence low and the failure message.
C11_CompletionOutage ==
    (CompletionOutage /\ pc # "cancelled" /\ max_search_rounds >= 1) =>
        /\ pc # "raised"
        /\ pc # "refine"
        /\ pc # "decompose" => decomposed_queries = << original_query >>
        /\ search_round = passes
        /\ search_round <= max_search_rounds
        /\ pc \in {"router", "end", "returned"} =>
               (confidence = "low" /\ final_answer = GENERATION_FAILURE)
        /\ (pc \in {"retrieve", "generate"} /\ routed # None) =>
               (routed[1].choice = "search_again"
                /\ routed[1].round < max_search_rounds)
        /\ Terminated =>
               (search_round = max_search_rounds /\ routed[1].choice = "end")
        /\ pc = "returned" =>
               /\ output[1].search_rounds = max_search_rounds
               /\ output[1].confidence = "low"
               /\ output[1].answer = GENERATION_FAILURE

GenerationEntries ==
    EntriesOf(reasoning_trace, { "Generated answer with", "Generation failed:" })

\* C12: with max_search_rounds >= 2, a run whose first generation reports
\* medium confidence and whose refinement succeeds ends with confidence high,
\* search_rounds = 1 and a trace of at least 4 entries.
C12_MediumThenRefine ==
    ( /\ pc = "returned"
      /\ refined
      /\ max_search_rounds >= 2
      /\ GenerationEntries[1] = << "Generated answer with", "medium", "confidence" >> )
    => /\ output[1].confidence = "high"
       /\ output[1].search_rounds = 1
       /\ Len(output[1].reasoning_trace) >= 4

ContentsOf(docs) == { docs[i].page_content : i \in 1..Len(docs) }

\* C13: a successful retrieval pass whose documents all have a page_content
\* already in all_retrieved_docs leaves all_retrieved_docs (length and order)
\* and current_context unchanged.
C13_IdempotentAccumulation ==
    [][ ( /\ passes' = passes + 1
          /\ last_batch' # None
          /\ ContentsOf(last_batch'[1]) \subseteq ContentsOf(all_retrieved_docs) )
        => /\ all_retrieved_docs' = all_retrieved_docs
           /\ current_context' = current_context ]_vars

RetrievalEntries == EntriesOf(reasoning_trace, { "Multi-hop retrieval:" })

\* the second pass returned two documents and both were already accumulated
C13_Witness ==
    /\ pc = "generate"
    /\ Len(RetrievalEntries) = 2
    /\ RetrievalEntries[1][4] = "2"
    /\ RetrievalEntries[2][2] = "2"
    /\ RetrievalEntries[2][4] = "2"

\* C14: decompose_query leaves between 1 and 4 sub-queries, whatever the
\* completion is.
C14_OneToFourQueries ==
    /\ Len(decomposed_queries) <= 4
    /\ pc \notin {"decompose", "raised", "cancelled"} =>
           Len(decomposed_queries) >= 1

NoMarker(content) == \A i \in 1..Len(content) : content[i] # Q_MARK

\* C15: when the decomposition completion has no line carrying the marker, or
\* the completion call fails, decomposed_queries becomes [original_query]; a
\* failed call appends a failure entry to the trace, and the run proceeds to
\* retrieval.
C15_DecompositionFallback ==
    [][ (pc = "decompose" /\ pc' \notin {"raised", "cancelled"}) =>
            /\ pc' = "retrieve"
            /\ last_reply' = None =>
                   /\ decomposed_queries' = << original_query >>
                   /\ reasoning_trace' =
                          Append(reasoning_trace,
                                 << "Decomposition failed:", ErrorText >>)
            /\ (last_reply' # None /\ NoMarker(last_reply'[1])) =>
                   decomposed_queries' = << original_query >> ]_vars

C15_Witness ==
    /\ pc = "retrieve"
    /\ passes = 0
    /\ last_reply # None
    /\ last_reply[1] # << >>
    /\ NoMarker(last_reply[1])
    /\ decomposed_queries = << original_query >>

\* C16: a failed generation call sets final_answer to the failure message and
\* confidence to low and appends a failure entry to the trace; the router
\* then neither chooses refine nor ends the run with confidence high.
C16_GenerationFailure ==
    [][ /\ (pc = "generate" /\ pc' = "router" /\ last_reply' = None) =>
               /\ final_answer' = GENERATION_FAILURE
               /\ confidence' = "low"
               /\ reasoning_trace' =
                      Append(reasoning_trace, << "Generation failed:", ErrorText >>)
        /\ (pc = "router" /\ last_reply = None) =>
               /\ pc' # "refine"
               /\ ~(pc' = "end" /\ confidence' = "high") ]_vars

C16_Witness ==
    /\ pc = "end"
    /\ routed # None
    /\ routed[1].choice = "end"
    /\ Last(reasoning_trace) = << "Generation failed:", ErrorText >>
    /\ final_answer = GENERATION_FAILURE
    /\ confidence = "low"

\* the text after the first sentinel of a completion that has one
AfterSentinel(content) ==
    SubSeq(content, IndexOf(content, SENTINEL, 1) + 1, Len(content))

NoSentinel(content) == IndexOf(content, SENTINEL, 1) = 0

NoLabel(text) ==
    \A i \in 1..Len(text) : Lower(text[i]) \notin {"high", "medium", "low"}

\* C17: the parsed confidence is medium when the completion has no confidence
\* sentinel and when the text after the sentinel has none of the labels high,
\* medium, low.
C17_DefaultsToMedium ==
    [][ ( /\ pc = "generate"
          /\ pc' = "router"
          /\ last_reply' # None
          /\ \/ NoSentinel(last_reply'[1])
             \/ NoLabel(AfterSentinel(last_reply'[1])) )
        => confidence' = "medium" ]_vars

\* C18: a failed refinement call leaves final_answer and confidence as they
\* were and appends a failure entry to the trace.
C18_RefinementFailureTraced ==
    [][ (pc = "refine" /\ pc' = "end" /\ last_reply' = None) =>
            /\ final_answer' = final_answer
            /\ confidence' = confidence
            /\ Len(reasoning_trace') = Len(reasoning_trace) + 1
            /\ SubSeq(reasoning_trace', 1, Len(reasoning_trace)) = reasoning_trace
      ]_vars

\* C19: a retrieval pass whose index lookup fails leaves all_retrieved_docs
\* and current_context as they were, appends one failure entry to the trace,
\* and the run continues with the generator.
C19_LookupFailureKeepsContext ==
    [][ (pc = "retrieve" /\ passes' = passes + 1 /\ last_batch' = None) =>
            /\ all_retrieved_docs' = all_retrieved_docs
            /\ current_context' = current_context
            /\ reasoning_trace' =
                   Append(reasoning_trace, << "Retrieval failed:", ErrorText >>)
            /\ pc' = "generate" ]_vars

C19_Witness ==
    /\ pc = "generate"
    /\ passes = 2
    /\ last_batch = None
    /\ Len(all_retrieved_docs) >= 1
    /\ current_context # << >>

DecompositionCount(trace) ==
    Len(EntriesOf(trace, { "Decomposed into", "Decomposition failed:" }))

\* C20: the decomposition node runs exactly once, before the first retrieval;
\* search_again leads to the retrieval node; decomposed_queries keeps its
\* value in every state after the decomposition.
C20_DecomposeOnce ==
    [][ /\ pc = "decompose" =>
               (passes = 0 /\ DecompositionCount(reasoning_trace) = 0)
        /\ (pc = "decompose" /\ pc' = "retrieve") =>
               DecompositionCount(reasoning_trace') = 1
        /\ pc # "decompose" =>
               /\ pc' # "decompose"
               /\ decomposed_queries' = decomposed_queries
               /\ DecompositionCount(reasoning_trace')
                      = DecompositionCount(reasoning_trace)
        /\ (pc = "router" /\ routed'[1].choice = "search_again") =>
               pc' = "retrieve" ]_vars

C20_Witness ==
    /\ pc = "generate"
    /\ passes = 2
    /\ routed # None
    /\ routed[1].choice = "search_again"
    /\ Len(decomposed_queries) = 2

\* ---------------------------------------------------------------- C21 .. C30
IsPrefix(s, t) == Len(s) <= Len(t) /\ SubSeq(t, 1, Len(s)) = s

\* C21: reasoning_trace is append-only: across every step of a run the
\* previous trace is a prefix of the new trace.
C21_TraceAppendOnly ==
    [][IsPrefix(reasoning_trace, reasoning_trace')]_vars

C21_Witness ==
    /\ pc = "returned"
    /\ passes = 2
    /\ Len(reasoning_trace) >= 6
    /\ reasoning_trace[1] = << "Agentic RAG pipeline started" >>

\* C23: a run with max_search_rounds < 1 is rejected before any retrieval
\* pass: no retrieval pass is executed under a limit below 1.
C23_LimitBelowOneRejected ==
    max_search_rounds < 1 => passes = 0

\* C24: the 'retries' value returned by run_astrology_rag is the number of
\* times the router chose retrieve_more; every execution of retrieve_documents
\* after the first follows exactly one such choice.
C24_RetriesCountsRetrieveMore ==
    s_pc = "returned" => s_output[1].retries = s_passes - 1

\* C25: a run cancelled at a collaborator call does not raise: it returns the
\* projection of the answer and trace accumulated so far.
C25_CancelReturnsProjection ==
    pc = "cancelled" =>
        /\ output # None
        /\ output[1].answer = final_answer
        /\ output[1].reasoning_trace = reasoning_trace

\* the documents of the batch whose page_content old does not hold
NewDocs(old, batch) ==
    SelectSeq(batch, LAMBDA d : d.page_content \notin ContentsOf(old))

\* C26: across every successful retrieval pass the previous all_retrieved_docs
\* is a prefix of the new one, and the new unique documents of the pass follow
\* it in retrieval order.
C26_AppendOrder ==
    [][ (passes' = passes + 1 /\ last_batch' # None) =>
            /\ IsPrefix(all_retrieved_docs, all_retrieved_docs')
            /\ all_retrieved_docs' =
                   all_retrieved_docs \o NewDocs(all_retrieved_docs, last_batch'[1])
      ]_vars

\* the first pass found DocB, the second pass found DocA and DocB
C26_Witness ==
    /\ pc = "generate"
    /\ Len(RetrievalEntries) = 2
    /\ RetrievalEntries[1][4] = "1"
    /\ last_batch = Some(<< DocA, DocB >>)
    /\ all_retrieved_docs = << DocB, DocA >>

\* C27: on an empty retrieved_docs, self_check does not invoke the language
\* model and sets is_grounded to False and confidence_score to one fixed value
\* above 0 and below the 0.7 threshold.
C27_EmptyDocsShortCircuit ==
    [][ (s_pc = "self_check" /\ retrieved_docs = << >>) =>
            /\ s_pc' = "router"
            /\ ~s_check'.invoked
            /\ is_grounded' = FALSE
            /\ confidence_score' = 50
            /\ 0 < confidence_score'
            /\ confidence_score' < 70 ]_vars

C27_Witness ==
    /\ s_pc = "router"
    /\ retrieved_docs = << >>
    /\ ~s_check.invoked
    /\ ~is_grounded
    /\ confidence_score = 50
    /\ all_context_used

\* C28: when the grounding reply is not JSON, is_grounded is whether the reply
\* holds the keyword and confidence_score is 0.6; once the language model has
\* been invoked, self_check returns a state for every reply and every failure
\* of the call.
C28_UnparseableReply ==
    [][ (s_pc = "self_check" /\ s_check'.invoked) =>
            /\ s_pc' = "router"
            /\ (s_check'.reply # None /\ s_check'.reply[1].kind = "text") =>
                   /\ is_grounded' = ContainsGround(s_check'.reply[1].text)
                   /\ confidence_score' = 60 ]_vars

C28_Witness ==
    /\ s_pc = "router"
    /\ s_check.invoked
    /\ s_check.reply # None
    /\ s_check.reply[1].kind = "text"
    /\ s_check.reply[1].text = << "not", "grounded" >>
    /\ is_grounded
    /\ confidence_score = 60

\* C29: when the index lookup of a retry pass of the scalar-confidence
\* pipeline fails, retrieved_docs and context keep the values they had after
\* the previous pass.
C29_ScalarLookupFailureKeepsContext ==
    [][ ( /\ s_pc = "retrieve"
          /\ s_passes >= 1
          /\ s_passes' = s_passes + 1
          /\ s_last_batch' = None )
        => /\ retrieved_docs' = retrieved_docs
           /\ context' = context ]_vars

\* the decision of the scalar router, as the claim states it
ScalarTable(score, retries) ==
    IF score >= 70 \/ retries >= 2 THEN "end" ELSE "retrieve_more"

\* C30: on any state produced by self_check, decide_next_step returns end
\* exactly when confidence_score >= 0.7 or retry_count >= 2, and retrieve_more
\* otherwise.
C30_ScalarRouterTable ==
    /\ \A score \in ReplyConfidences \cup {60} : \A retries \in 0..(RETRY_LIMIT + 1) :
           decide_next_step(score, retries, TRUE) = ScalarTable(score, retries)
    /\ s_pc = "router" =>
           /\ all_context_used
           /\ decide_next_step(confidence_score, retry_count, all_context_used)
                  = ScalarTable(confidence_score, retry_count)

C30_Witness ==
    /\ s_pc = "router"
    /\ confidence_score = 70
    /\ s_passes = 1
    /\ decide_next_step(confidence_score, retry_count, all_context_used) = "end"

\* ---------------------------------------------------------------- C31 .. C38
\* C31: original_query and max_search_rounds keep their initial values in
\* every state of a run: no step modifies either field.
C31_QueryAndLimitImmutable ==
    [][ /\ original_query' = original_query
        /\ max_search_rounds' = max_search_rounds ]_vars

C31_Witness ==
    /\ pc = "returned"
    /\ refined
    /\ Len(decomposed_queries) = 2
    /\ original_query = << "q0" >>
    /\ max_search_rounds = 2

\* the fields of AgenticAstrologyState
RunState ==
    << original_query, decomposed_queries, search_round, all_retrieved_docs,
       current_context, intermediate_answers, final_answer, confidence,
       reasoning_trace, max_search_rounds >>

\* C32: a routing decision leaves every field of the run state unchanged and
\* makes no collaborator call; it only selects the next node.
C32_RouterIsPure ==
    [][ pc = "router" =>
            /\ RunState' = RunState
            /\ last_reply' = None
            /\ last_batch' = None
            /\ pc' \in {"end", "refine", "retrieve"} ]_vars

C32_Witness ==
    /\ pc = "end"
    /\ passes = 1
    /\ routed # None
    /\ routed[1].choice = "end"
    /\ routed[1].conf = "high"
    /\ Last(reasoning_trace) = << "Generated answer with", "high", "confidence" >>

\* C33: in every reachable state of the scalar-confidence pipeline,
\* confidence_score lies in the closed range [0.0, 1.0].
C33_ScoreInUnitRange ==
    0 <= confidence_score /\ confidence_score <= 100

\* C34: a run that has terminated with a confidence other than high has
\* search_round >= max_search_rounds, or ended through a refine step whose
\* completion call failed.
C34_NotHighMeansExhausted ==
    (Terminated /\ confidence # "high") =>
        \/ search_round >= max_search_rounds
        \/ (routed # None /\ routed[1].choice = "refine" /\ ~refined)

C34_Witness ==
    /\ pc = "end"
    /\ confidence = "medium"
    /\ search_round < max_search_rounds
    /\ routed # None
    /\ routed[1].choice = "refine"
    /\ ~refined

\* C35: the refine node is entered only from the router, right after a
\* generation whose confidence is medium with search_round <
\* max_search_rounds, and the run is over once refine has executed, so it
\* executes at most once.
C35_RefineOnceAfterMedium ==
    [][ /\ pc' = "refine" =>
               /\ pc = "router"
               /\ confidence = "medium"
               /\ search_round < max_search_rounds
               /\ Last(reasoning_trace)
                      = << "Generated answer with", "medium", "confidence" >>
        /\ pc = "refine" => pc' \in {"end", "raised", "cancelled"}
        /\ pc = "end" => pc' = "returned" ]_vars

C35_Witness ==
    /\ pc = "refine"
    /\ passes = 1
    /\ routed # None
    /\ routed[1].conf = "medium"
    /\ routed[1].round < routed[1].limit

\* C36: for max_search_rounds >= 1, search_round <= max_search_rounds in
\* every reachable state, and the search_rounds of the returned projection is
\* between 0 and max_search_rounds.
C36_RoundWithinLimit ==
    max_search_rounds >= 1 =>
        /\ search_round <= max_search_rounds
        /\ output # None =>
               /\ 0 <= output[1].search_rounds
               /\ output[1].search_rounds <= max_search_rounds

C36_Witness ==
    /\ pc = "returned"
    /\ max_search_rounds = 2
    /\ output # None
    /\ output[1].search_rounds = 2
    /\ output[1].confidence = "low"

\* label precedence over a text: high, otherwise medium, otherwise low
LabelOf(text) ==
    IF \E i \in 1..Len(text) : Lower(text[i]) = "high" THEN "high"
    ELSE IF \E i \in 1..Len(text) : Lower(text[i]) = "medium" THEN "medium"
    ELSE "low"

\* text up to its first sentinel
UpToSentinel(text) ==
    IF NoSentinel(text) THEN text
    ELSE SubSeq(text, 1, IndexOf(text, SENTINEL, 1) - 1)

\* a generation step that received a completion holding the sentinel
ParsedWithSentinel ==
    /\ pc = "generate"
    /\ pc' = "router"
    /\ last_reply' # None
    /\ ~NoSentinel(last_reply'[1])

\* C37 as stated: with the sentinel present, the parsed confidence is the
\* label precedence over all text after the first sentinel.
C37_LabelOverAllText ==
    [][ ParsedWithSentinel =>
            confidence' = LabelOf(AfterSentinel(last_reply'[1])) ]_vars

\* C37 as amended: with the sentinel present, the parsed confidence is the
\* label precedence over the text between the first sentinel and the next
\* sentinel (or the end of the completion); a completion parsed as high ends
\* the run.
C37_LabelUpToNextSentinel ==
    [][ /\ ParsedWithSentinel =>
               confidence' = LabelOf(UpToSentinel(AfterSentinel(last_reply'[1])))
        /\ (pc = "router" /\ confidence = "high") => pc' = "end" ]_vars

\* a reply labelled LOW that mentions high afterwards was parsed as high
C37_Witness ==
    /\ pc = "router"
    /\ last_reply = Some(<< ANSWER_MARK, "txt", SENTINEL, "LOW", "HIGH" >>)
    /\ confidence = "high"

Range(seq) == { seq[i] : i \in 1..Len(seq) }

\* C38: total_requests = successful + failed, every handled reading item
\* increments total_requests by exactly 1, and a batch response has
\* successful + failed = total with each item in exactly one of results and
\* errors.
C38_RequestStats ==
    /\ stats.total_requests = stats.successful + stats.failed
    /\ stats.total_requests = handled
    /\ batch_response # None =>
           LET b == batch_response[1]
           IN  /\ b.successful + b.failed = b.total
               /\ Len(b.results) + Len(b.errors) = b.total
               /\ \A i \in 1..b.total :
                      (i \in Range(b.results)) # (i \in Range(b.errors))

====
